---- MODULE Spec2Model ----
(***************************************************************************)
(* State-machine model of the SRT translator (src/main.py): the document   *)
(* held in current_srt_subs, the file-picker dispatch, the translate and   *)
(* save handlers, and the subtitle codec the handlers call                 *)
(* (pysrt.from_string at main.py:133, SubRipFile.save at main.py:65).      *)
(* Text is modelled at character level: a string is a sequence of          *)
(* one-character strings.                                                  *)
(***************************************************************************)
EXTENDS Integers, Sequences, FiniteSets, Bags, TLC

(***************************************************************************)
(* String primitives used by the codec (str.strip, str.splitlines,         *)
(* str.split, int()).  A character is a one-character string, of a code    *)
(* point up to 255; in that range the white space of str.strip is the set  *)
(* WS, the line boundaries of str.splitlines the set LineEnds, and the     *)
(* decimal digits are "0" to "9".                                          *)
(***************************************************************************)
WS == {" ", "\t", "\n", "\r", "\f", "", "", "", "", "", "", " "}

\* A line ends at one of these, or at "\r" "\n" taken as one line end.
LineEnds == {"\n", "\r", "\f", "", "", "", "", ""}

Digit == {"0", "1", "2", "3", "4", "5", "6", "7", "8", "9"}

RECURSIVE lstrip(_)
lstrip(s) == IF s # <<>> /\ Head(s) \in WS THEN lstrip(Tail(s)) ELSE s

RECURSIVE rstrip(_)
rstrip(s) ==
    IF s # <<>> /\ s[Len(s)] \in WS THEN rstrip(SubSeq(s, 1, Len(s) - 1)) ELSE s

strip(s) == lstrip(rstrip(s))

\* str.find, 1-based; 0 when sub does not occur.
find(s, sub) ==
    LET hits == {i \in 1..(Len(s) - Len(sub) + 1) : SubSeq(s, i, i + Len(sub) - 1) = sub}
    IN  IF hits = {} THEN 0 ELSE CHOOSE i \in hits : \A j \in hits : i <= j

endswith(s, suf) ==
    Len(s) >= Len(suf) /\ SubSeq(s, Len(s) - Len(suf) + 1, Len(s)) = suf

\* str.splitlines(True): the lines of s, each keeping its line end.
RECURSIVE splitlines(_)
splitlines(s) ==
    LET hits == {i \in 1..Len(s) : s[i] \in LineEnds}
    IN  IF s = <<>> THEN <<>>
        ELSE IF hits = {} THEN <<s>>
        ELSE LET k == CHOOSE i \in hits : \A j \in hits : i <= j
                 e == IF s[k] = "\r" /\ k < Len(s) /\ s[k + 1] = "\n" THEN k + 1 ELSE k
             IN  <<SubSeq(s, 1, e)>> \o splitlines(SubSeq(s, e + 1, Len(s)))

\* str.split(sep)
RECURSIVE split(_, _)
split(s, sep) ==
    LET k == find(s, sep)
    IN  IF k = 0 THEN <<s>>
        ELSE <<SubSeq(s, 1, k - 1)>> \o split(SubSeq(s, k + Len(sep), Len(s)), sep)

\* str.split(sep, 1)
split1(s, sep) ==
    LET k == find(s, sep)
    IN  IF k = 0 THEN <<s>>
        ELSE <<SubSeq(s, 1, k - 1), SubSeq(s, k + Len(sep), Len(s))>>

\* '\n'.join(lines)
RECURSIVE join(_)
join(lines) ==
    IF lines = <<>> THEN <<>>
    ELSE IF Len(lines) = 1 THEN lines[1]
    ELSE lines[1] \o <<"\n">> \o join(Tail(lines))

DigitVal(c) ==
    CASE c = "0" -> 0 [] c = "1" -> 1 [] c = "2" -> 2 [] c = "3" -> 3 [] c = "4" -> 4
      [] c = "5" -> 5 [] c = "6" -> 6 [] c = "7" -> 7 [] c = "8" -> 8 [] c = "9" -> 9

DigitChar(d) ==
    CASE d = 0 -> "0" [] d = 1 -> "1" [] d = 2 -> "2" [] d = 3 -> "3" [] d = 4 -> "4"
      [] d = 5 -> "5" [] d = 6 -> "6" [] d = 7 -> "7" [] d = 8 -> "8" [] d = 9 -> "9"

\* The digits int() reads after the sign: digits, with single underscores
\* between them.
IsDigits(s) ==
    /\ s # <<>>
    /\ s[1] \in Digit
    /\ s[Len(s)] \in Digit
    /\ \A i \in 1..Len(s) : s[i] \in Digit \cup {"_"}
    /\ \A i \in 1..(Len(s) - 1) : ~(s[i] = "_" /\ s[i + 1] = "_")

(***************************************************************************)
(* Integers.  A Python int has no width in arithmetic, so an int is held   *)
(* as the text str() prints for it: its digits with no leading zero, after *)
(* "-" when it is negative.  The arithmetic of pysrt's times is done on    *)
(* that text.  The conversions between int and str do have a limit.        *)
(***************************************************************************)
\* sys.get_int_max_str_digits(): int(s) and str(n) raise ValueError beyond it.
MaxStrDigits == 4300

\* The digits of s that the limit counts (sign, white space and underscores
\* are not counted, leading zeros are).
DigitCount(s) == Len(SelectSeq(s, LAMBDA c : c \in Digit))

\* str(n) for a small integer n of the model.
RECURSIVE itoa(_)
itoa(n) ==
    IF n < 0 THEN <<"-">> \o itoa(0 - n)
    ELSE IF n < 10 THEN <<DigitChar(n)>>
    ELSE itoa(n \div 10) \o <<DigitChar(n % 10)>>

\* d without its leading zeros; the last digit stays.
DropZeros(d) ==
    LET keep == {i \in 1..Len(d) : d[i] # "0" \/ i = Len(d)}
    IN  IF d = <<>> THEN d
        ELSE SubSeq(d, CHOOSE i \in keep : \A j \in keep : i <= j, Len(d))

\* The int a run of digits (and underscores) denotes.
Decimal(s) ==
    LET d == SelectSeq(s, LAMBDA c : c \in Digit)
    IN  IF d = <<>> THEN <<"0">> ELSE DropZeros(d)

negative(n) == Head(n) = "-"

abs(n) == IF negative(n) THEN Tail(n) ELSE n

\* -n
neg(n) == IF n = <<"0">> THEN n ELSE IF negative(n) THEN Tail(n) ELSE <<"-">> \o n

\* a < b for a, b >= 0
less_digits(a, b) ==
    LET differ == {i \in 1..Len(a) : Len(a) = Len(b) /\ a[i] # b[i]}
    IN  IF Len(a) # Len(b) THEN Len(a) < Len(b)
        ELSE IF differ = {} THEN FALSE
        ELSE DigitVal(a[CHOOSE i \in differ : \A j \in differ : i <= j])
                 < DigitVal(b[CHOOSE i \in differ : \A j \in differ : i <= j])

(***************************************************************************)
(* Arithmetic on the digits.  A run of digits is worked on as two halves,  *)
(* so that the depth of the evaluation grows with the logarithm of the     *)
(* number of digits: [digits, carry] is the digits of the result for the   *)
(* run and what is carried out of it (a carry, a borrow, a remainder).     *)
(***************************************************************************)
\* The last n digits of a, with zeros before them where a is shorter.
pad_digits(a, n) ==
    [i \in 1..n |-> IF i <= n - Len(a) THEN "0" ELSE a[i - (n - Len(a))]]

longest(a, b) == IF Len(a) < Len(b) THEN Len(b) ELSE Len(a)

\* The digit and the carry of t, the sum or product at one digit.
digit_and_carry(t) == [digits |-> <<DigitChar(t % 10)>>, carry |-> t \div 10]

\* The digit and the borrow of t, the difference at one digit.
digit_and_borrow(t) ==
    [digits |-> <<DigitChar(IF t < 0 THEN t + 10 ELSE t)>>, carry |-> IF t < 0 THEN 1 ELSE 0]

\* The digit and the remainder of t divided by k.
digit_and_remainder(t, k) == [digits |-> <<DigitChar(t \div k)>>, carry |-> t % k]

\* A run done from the right: its right half is done first, and what is
\* carried out comes from its left half.
from_right(high, low) ==
    IF low.digits = <<>> THEN high
    ELSE [digits |-> high.digits \o low.digits, carry |-> high.carry]

\* A run done from the left: what is carried out comes from its right half.
from_left(high, low) == [digits |-> high.digits \o low.digits, carry |-> low.carry]

\* a + b + carry for as many digits b as a, from the right
RECURSIVE add_range(_, _, _)
add_left_half(a, b, low) ==
    from_right(add_range(SubSeq(a, 1, Len(a) \div 2), SubSeq(b, 1, Len(a) \div 2),
                         low.carry),
               low)

add_range(a, b, carry) ==
    IF a = <<>> THEN [digits |-> <<>>, carry |-> carry]
    ELSE IF Len(a) = 1 THEN digit_and_carry(DigitVal(a[1]) + DigitVal(b[1]) + carry)
    ELSE add_left_half(a, b, add_range(SubSeq(a, Len(a) \div 2 + 1, Len(a)),
                                       SubSeq(b, Len(a) \div 2 + 1, Len(a)), carry))

add_carried(sum) == (IF sum.carry = 0 THEN <<>> ELSE <<DigitChar(sum.carry)>>) \o sum.digits

\* a + b + carry for a, b >= 0
add_digits(a, b, carry) ==
    add_carried(add_range(pad_digits(a, longest(a, b)), pad_digits(b, longest(a, b)),
                          carry))

\* a - b - borrow for as many digits b as a, from the right
RECURSIVE sub_range(_, _, _)
sub_left_half(a, b, low) ==
    from_right(sub_range(SubSeq(a, 1, Len(a) \div 2), SubSeq(b, 1, Len(a) \div 2),
                         low.carry),
               low)

sub_range(a, b, borrow) ==
    IF a = <<>> THEN [digits |-> <<>>, carry |-> borrow]
    ELSE IF Len(a) = 1 THEN digit_and_borrow(DigitVal(a[1]) - DigitVal(b[1]) - borrow)
    ELSE sub_left_half(a, b, sub_range(SubSeq(a, Len(a) \div 2 + 1, Len(a)),
                                       SubSeq(b, Len(a) \div 2 + 1, Len(a)), borrow))

\* a - b - borrow for a >= b >= 0; leading zeros are left in
sub_digits(a, b, borrow) == sub_range(a, pad_digits(b, Len(a)), borrow).digits

\* a * k + carry for the digits a and a small k >= 0, from the right
RECURSIVE mul_range(_, _, _)
mul_left_half(a, k, low) ==
    from_right(mul_range(SubSeq(a, 1, Len(a) \div 2), k, low.carry), low)

mul_range(a, k, carry) ==
    IF a = <<>> THEN [digits |-> <<>>, carry |-> carry]
    ELSE IF Len(a) = 1 THEN digit_and_carry(DigitVal(a[1]) * k + carry)
    ELSE mul_left_half(a, k, mul_range(SubSeq(a, Len(a) \div 2 + 1, Len(a)), k, carry))

mul_carried(product) == itoa(product.carry) \o product.digits

\* a * k + carry for a >= 0 and a small k >= 0; leading zeros are left in
mul_digits(a, k, carry) == mul_carried(mul_range(a, k, carry))

\* a + b
add(a, b) ==
    IF negative(a) = negative(b)
    THEN LET sum == DropZeros(add_digits(abs(a), abs(b), 0))
         IN  IF negative(a) THEN neg(sum) ELSE sum
    ELSE IF less_digits(abs(a), abs(b))
    THEN LET d == DropZeros(sub_digits(abs(b), abs(a), 0))
         IN  IF negative(b) THEN neg(d) ELSE d
    ELSE LET d == DropZeros(sub_digits(abs(a), abs(b), 0))
         IN  IF negative(a) THEN neg(d) ELSE d

\* a * k for a small k >= 0
mul(a, k) ==
    LET p == DropZeros(mul_digits(abs(a), k, 0))
    IN  IF negative(a) THEN neg(p) ELSE p

\* The digits a, after the remainder r, divided by a small k > 0, from the left
RECURSIVE div_range(_, _, _)
div_right_half(a, k, high) ==
    from_left(high, div_range(SubSeq(a, Len(a) \div 2 + 1, Len(a)), k, high.carry))

div_range(a, k, r) ==
    IF a = <<>> THEN [digits |-> <<>>, carry |-> r]
    ELSE IF Len(a) = 1 THEN digit_and_remainder(r * 10 + DigitVal(a[1]), k)
    ELSE div_right_half(a, k, div_range(SubSeq(a, 1, Len(a) \div 2), k, r))

div_result(d) == [q |-> d.digits, r |-> d.carry]

\* divmod(a, k) for a >= 0 and a small k > 0: [q, r], r a small integer
divmod_digits(a, k, r) == div_result(div_range(a, k, r))

divmod_result(d) == [q |-> DropZeros(d.q), r |-> d.r]

divmod(a, k) == divmod_result(divmod_digits(a, k, 0))

\* The white space int() skips around the number: that of str.strip without
\* the separators 0x1C to 0x1F.
IntWS == WS \ {"", "", "", ""}

RECURSIVE int_lstrip(_)
int_lstrip(s) == IF s # <<>> /\ Head(s) \in IntWS THEN int_lstrip(Tail(s)) ELSE s

RECURSIVE int_rstrip(_)
int_rstrip(s) ==
    IF s # <<>> /\ s[Len(s)] \in IntWS THEN int_rstrip(SubSeq(s, 1, Len(s) - 1)) ELSE s

\* The int of the digits u read after the sign: minus is that the sign was "-".
int_signed(u, minus) ==
    IF IsDigits(u) /\ DigitCount(u) <= MaxStrDigits
    THEN [ok |-> TRUE, value |-> IF minus THEN neg(Decimal(u)) ELSE Decimal(u)]
    ELSE [ok |-> FALSE, value |-> <<"0">>]

\* The int of t, which has no white space around it.
int_stripped(t) ==
    IF t # <<>> /\ Head(t) \in {"+", "-"} THEN int_signed(Tail(t), Head(t) = "-")
    ELSE int_signed(t, FALSE)

\* int(s): [ok, value]; int() accepts surrounding white space, a sign, and
\* underscores between the digits, up to MaxStrDigits digits; not ok is
\* ValueError.
int(s) == int_stripped(int_lstrip(int_rstrip(s)))

(***************************************************************************)
(* pysrt, as called at main.py:133 (pysrt.from_string) and main.py:65      *)
(* (SubRipFile.save).  A time is its ordinal in milliseconds.              *)
(***************************************************************************)
HOURS_RATIO == 3600000

MINUTES_RATIO == 60000

SECONDS_RATIO == 1000

Arrow == <<"-", "-", ">">>

\* RE_INTEGER: the leading run of digits.
LeadingDigits(s) ==
    LET stops == {i \in 1..Len(s) : s[i] \notin Digit}
    IN  IF stops = {} THEN s
        ELSE SubSeq(s, 1, (CHOOSE i \in stops : \A j \in stops : i <= j) - 1)

\* int(match.group()) as whole: [raised, value].
parse_int_group(whole) == [raised |-> ~whole.ok, value |-> whole.value]

\* The except branch of parse_int: match is the leading run of digits;
\* int(match.group()) when there is one, else 0.
parse_int_match(match) ==
    IF match # <<>> THEN parse_int_group(int(match))
    ELSE [raised |-> FALSE, value |-> <<"0">>]

\* parse_int given int(digits) as whole.
parse_int_except(whole, digits) ==
    IF whole.ok THEN [raised |-> FALSE, value |-> whole.value]
    ELSE parse_int_match(LeadingDigits(digits))

\* SubRipTime.parse_int: [raised, value]: int(digits), else int of the leading
\* run of digits, else 0; raised is the ValueError of that second int().
parse_int(digits) == parse_int_except(int(digits), digits)

\* re.split(r'\:|\.|\,', source)
RECURSIVE time_sep_split(_)
time_sep_split(s) ==
    LET hits == {i \in 1..Len(s) : s[i] \in {":", ".", ","}}
    IN  IF hits = {} THEN <<s>>
        ELSE LET k == CHOOSE i \in hits : \A j \in hits : i <= j
             IN  <<SubSeq(s, 1, k - 1)>> \o time_sep_split(SubSeq(s, k + 1, Len(s)))

\* SubRipTime(hours, minutes, seconds, milliseconds) of the parsed items p,
\* each [raised, value]: [ok, raised, ordinal].
SubRipTime(p) ==
    IF \E i \in 1..4 : p[i].raised
    THEN [ok |-> FALSE, raised |-> TRUE, ordinal |-> <<"0">>]
    ELSE [ok |-> TRUE, raised |-> FALSE,
          ordinal |-> add(add(add(mul(p[1].value, HOURS_RATIO),
                                  mul(p[2].value, MINUTES_RATIO)),
                              mul(p[3].value, SECONDS_RATIO)),
                          p[4].value)]

\* SubRipTime.from_string given the items of RE_TIME_SEP.split.
SubRipTime_from_items(items) ==
    IF Len(items) # 4 THEN [ok |-> FALSE, raised |-> FALSE, ordinal |-> <<"0">>]
    ELSE SubRipTime([i \in 1..4 |-> parse_int(items[i])])

\* SubRipTime.coerce(source or 0): [ok, raised, ordinal]; not ok is
\* InvalidTimeString, raised is the ValueError of parse_int.
SubRipTime_coerce(source) ==
    IF source = <<>> THEN [ok |-> TRUE, raised |-> FALSE, ordinal |-> <<"0">>]
    ELSE SubRipTime_from_items(time_sep_split(source))

\* '%0<w>d' % n for n >= 0
RECURSIVE zero_pad(_, _)
zero_pad(digits, w) == IF Len(digits) >= w THEN digits ELSE zero_pad(<<"0">> \o digits, w)

\* '%02d' % hours raises ValueError when the hours have more than
\* MaxStrDigits digits.
SubRipTime_str_raises(ordinal) ==
    /\ ~negative(ordinal)
    /\ Len(divmod(ordinal, HOURS_RATIO).q) > MaxStrDigits

\* SubRipTime.__str__: '%02d:%02d:%02d,%03d'; a negative time prints as zero.
SubRipTime_str(ordinal) ==
    LET o == divmod(IF negative(ordinal) THEN <<"0">> ELSE ordinal, HOURS_RATIO)
    IN  zero_pad(o.q, 2) \o <<":">>
        \o zero_pad(itoa((o.r \div MINUTES_RATIO) % 60), 2) \o <<":">>
        \o zero_pad(itoa((o.r \div SECONDS_RATIO) % 60), 2) \o <<",">>
        \o zero_pad(itoa(o.r % SECONDS_RATIO), 3)

\* split_timestamps given start and end_and_position.
split_end_and_position(start, end_and_position) ==
    [ok |-> TRUE,
     start |-> strip(start),
     end |-> strip(end_and_position[1]),
     position |-> IF Len(end_and_position) > 1 THEN strip(end_and_position[2]) ELSE <<>>]

\* split_timestamps given line.split(TIMESTAMP_SEPARATOR).
split_start_end(timestamps) ==
    IF Len(timestamps) # 2
    THEN [ok |-> FALSE, start |-> <<>>, end |-> <<>>, position |-> <<>>]
    ELSE split_end_and_position(timestamps[1], split1(lstrip(timestamps[2]), <<" ">>))

\* SubRipItem.split_timestamps: [ok, start, end, position]; not ok is InvalidItem.
split_timestamps(line) == split_start_end(split(line, Arrow))

\* The index as Python prints it, given int(index) as whole: an int when
\* int(index) succeeds, the given string otherwise.
index_repr(whole, index) == IF whole.ok THEN whole.value ELSE index

\* SubRipItem.__init__: the index is kept as Python prints it ("None" when
\* absent).
SubRipItem(index, has_index, start, end, text, position) ==
    [index |-> IF ~has_index THEN <<"N", "o", "n", "e">>
               ELSE index_repr(int(index), index),
     start |-> start, end |-> end, position |-> position, text |-> text]

\* What stands for the item where from_lines yields none.
NoItem ==
    [index |-> <<"N", "o", "n", "e">>, start |-> <<"0">>, end |-> <<"0">>,
     position |-> <<>>, text |-> <<>>]

\* from_lines given the coerced times times[1] (start) and times[2] (end).
\* The start is read before the end.
from_times(index, has_index, times, text, position) ==
    IF times[1].raised \/ (times[1].ok /\ times[2].raised)
    THEN [ok |-> FALSE, raised |-> TRUE, item |-> NoItem]
    ELSE IF ~times[1].ok \/ ~times[2].ok
    THEN [ok |-> FALSE, raised |-> FALSE, item |-> NoItem]
    ELSE [ok |-> TRUE, raised |-> FALSE,
          item |-> SubRipItem(index, has_index, times[1].ordinal, times[2].ordinal,
                              text, position)]

\* from_lines given split_timestamps(lines[0]) as ts.
from_timestamps(index, has_index, ts, text) ==
    IF ~ts.ok THEN [ok |-> FALSE, raised |-> FALSE, item |-> NoItem]
    ELSE from_times(index, has_index,
                    [i \in 1..2 |-> SubRipTime_coerce(IF i = 1 THEN ts.start ELSE ts.end)],
                    text, ts.position)

\* from_lines given the lines after the index line, if there is one.
from_index_and_lines(index, has_index, lines) ==
    from_timestamps(index, has_index, split_timestamps(lines[1]), join(Tail(lines)))

\* from_lines given the lines with the white space at their ends removed.
from_stripped(stripped, has_index) ==
    from_index_and_lines(stripped[1], has_index,
                         IF has_index THEN Tail(stripped) ELSE stripped)

\* SubRipItem.from_lines: [ok, raised, item]; not ok is an Error the stream
\* skips, raised is a ValueError, which the stream does not catch.
from_lines(raw_lines) ==
    IF Len(raw_lines) < 2 THEN [ok |-> FALSE, raised |-> FALSE, item |-> NoItem]
    ELSE from_stripped([i \in 1..Len(raw_lines) |-> rstrip(raw_lines[i])],
                       find(rstrip(raw_lines[1]), Arrow) = 0)

\* SubRipFile.stream over chain(lines, '\n'): blank lines end a block, a block
\* that is no item is skipped (error_handling is None: neither raised nor logged).
\* What the stream yields for a block: its item, if it is one.
yielded(source, r) == IF source # <<>> /\ r.ok THEN <<r.item>> ELSE <<>>

RECURSIVE stream(_, _)
stream(lines, string_buffer) ==
    IF lines = <<>> THEN <<>>
    ELSE IF strip(Head(lines)) # <<>> THEN stream(Tail(lines), Append(string_buffer, Head(lines)))
    ELSE yielded(string_buffer, from_lines(string_buffer)) \o stream(Tail(lines), <<>>)

\* The stream raises: a block raises a ValueError.
RECURSIVE stream_raises(_, _)
stream_raises(lines, string_buffer) ==
    IF lines = <<>> THEN FALSE
    ELSE IF strip(Head(lines)) # <<>>
    THEN stream_raises(Tail(lines), Append(string_buffer, Head(lines)))
    ELSE \/ string_buffer # <<>> /\ from_lines(string_buffer).raised
         \/ stream_raises(Tail(lines), <<>>)

None == [is_none |-> TRUE, data |-> <<>>]

SubRipFile(items) == [is_none |-> FALSE, data |-> items]

\* pysrt.from_string(srt_content) (main.py:133): [raised, subs].  Malformed
\* blocks are skipped; a ValueError of int() comes out of from_string.
from_string(srt_content) ==
    [raised |-> stream_raises(Append(splitlines(srt_content), <<"\n">>), <<>>),
     subs |-> SubRipFile(stream(Append(splitlines(srt_content), <<"\n">>), <<>>))]

\* SubRipItem.__str__: '%s\n%s --> %s%s\n%s\n'
SubRipItem_str(item) ==
    item.index \o <<"\n">>
    \o SubRipTime_str(item.start) \o <<" ">> \o Arrow \o <<" ">> \o SubRipTime_str(item.end)
    \o (IF strip(item.position) # <<>> THEN <<" ">> \o item.position ELSE <<>>)
    \o <<"\n">> \o item.text \o <<"\n">>

\* write_into without the line that separates two items.
RECURSIVE write_into_unseparated(_)
write_into_unseparated(items) ==
    IF items = <<>> THEN <<>>
    ELSE SubRipItem_str(Head(items)) \o write_into_unseparated(Tail(items))

\* SubRipFile.save raises: an item's time cannot be printed.
save_raises(items) ==
    \E i \in 1..Len(items) :
        SubRipTime_str_raises(items[i].start) \/ SubRipTime_str_raises(items[i].end)

\* SubRipFile.write_into (the body of save, main.py:65): every item, then an
\* end of line unless the item already ends with two.
RECURSIVE write_into(_)
write_into(items) ==
    IF items = <<>> THEN <<>>
    ELSE LET string_repr == SubRipItem_str(Head(items))
         IN  string_repr
             \o (IF endswith(string_repr, <<"\n", "\n">>) THEN <<>> ELSE <<"\n">>)
             \o write_into(Tail(items))

(***************************************************************************)
(* The session: the closure variables and controls of main(page), and the  *)
(* handlers.  Flet runs every event handler in a thread of its own, so a   *)
(* handler that waits lets other handlers run meanwhile.  A handler is cut *)
(* into steps where it waits: on_file_selected_callback in open()/read()   *)
(* (main.py:130-131), on_save_srt_result in save (main.py:65),             *)
(* translate_srt_clicked in page.update() (main.py:211) and in             *)
(* translate_text (main.py:216).  The interpreter can also run another     *)
(* handler between two reads of shared data, so a handler is cut there     *)
(* too: on_save_srt_result between its test of current_srt_subs            *)
(* (main.py:64) and the call of save on what the variable names by then    *)
(* (main.py:65); translate_srt_clicked between the cues it reads while it  *)
(* collects the texts (main.py:215), and, after translate_text has         *)
(* returned, where it reads the closure variable current_srt_subs again:   *)
(* in every iteration of its loop (main.py:219), for the preview           *)
(* (main.py:221-222), and before it enables the save button (main.py:225). *)
(***************************************************************************)
VARIABLES
    current_srt_subs,        \* main.py:43  None or the parsed SubRipFile
    api_key,                 \* config["deepl_api_key"]
    source_lang,             \* source_lang_dropdown.value
    target_lang,             \* target_lang_dropdown.value
    save_disabled,           \* save_srt_button.disabled
    on_result,               \* file_picker.on_result, the callback now installed
    dialog,                  \* the file dialog now open: "none", "pick" or "save"
    reading,                 \* the load callbacks waiting in open()/read()
                             \* (main.py:130-131): a bag of their events
    saving,                  \* the save callbacks between the test of
                             \* main.py:64 and the call of save, and those
                             \* waiting in save (main.py:65) for the
                             \* destination to be opened: a bag
    inflight,                \* the translate handlers that have not ended: a
                             \* bag of their positions (pc) and local variables
    last,                    \* history: the step taken last, the document
                             \* before it, whether its handler has called the
                             \* Translation Client, the message it showed (its
                             \* outcome), the request it sent or the results
                             \* it got, the file content it wrote, and for a
                             \* step of a translate handler the document its
                             \* request was made from (before)
    recent                   \* history: what happened last among file selection
                             \* ("none"), start of a translate ("started") and
                             \* end of one ("ok", "failed")

vars == <<current_srt_subs, api_key, source_lang, target_lang,
          save_disabled, on_result, dialog, reading, saving, inflight, last, recent>>

\* Bounds of the model: how many sample files the user can pick, how many
\* distinct strings the Translation Client can answer with, how many
\* handlers can be waiting at a time, how many of them can be between the
\* dropdowns (main.py:205-206) and their request (main.py:216) when a dropdown
\* is changed (their request is then made with the languages read before the
\* change), and how many handlers can be waiting when the API key is saved
\* (they go on with the key they have read).
NumFiles == 3

NumTexts == 2

MaxWaiting == 2

MaxStale == 0

MaxBusy == 0

\* The content of the sample subtitle files: two cues, an empty file (zero
\* cues), a file whose hours have more digits than int() accepts (from_string
\* raises), one cue with no text, one cue, a file whose first block has no
\* timestamp line (pysrt skips that block; files 6 and above), and a file
\* that loads but whose start time has hours of more digits than str()
\* prints (the preview at main.py:222-223 raises; file 7).
SampleFile(i) ==
    CASE i = 1 -> <<"1", "\n", "0", "0", ":", "0", "0", ":", "0", "1", ",", "0", "0", "0", " ", "-", "-", ">", " ", "0", "0", ":", "0", "0", ":", "0", "2", ",", "5", "0", "0", "\n", "H", "e", "l", "l", "o", "\n", "\n", "2", "\n", "0", "0", ":", "0", "0", ":", "0", "3", ",", "0", "0", "0", " ", "-", "-", ">", " ", "0", "0", ":", "0", "0", ":", "0", "4", ",", "0", "0", "0", "\n", "W", "o", "r", "l", "d", "\n">>
      [] i = 2 -> <<>>
      [] i = 3 -> <<"1", "\n">> \o [k \in 1..(MaxStrDigits + 1) |-> "9"]
                  \o <<":", "0", "0", ":", "0", "1", ",", "0", "0", "0", " ", "-", "-", ">", " ", "0", "0", ":", "0", "0", ":", "0", "2", ",", "0", "0", "0", "\n", "x", "\n">>
      [] i = 4 -> <<"1", "\n", "0", "0", ":", "0", "0", ":", "0", "1", ",", "0", "0", "0", " ", "-", "-", ">", " ", "0", "0", ":", "0", "0", ":", "0", "2", ",", "5", "0", "0", "\n", "\n">>
      [] i = 5 -> <<"1", "\n", "0", "0", ":", "0", "0", ":", "0", "1", ",", "0", "0", "0", " ", "-", "-", ">", " ", "0", "0", ":", "0", "0", ":", "0", "2", ",", "5", "0", "0", "\n", "H", "e", "l", "l", "o", "\n", "\n">>
      [] i = 7 -> <<"1", "\n">> \o [k \in 1..MaxStrDigits |-> "9"]
                  \o <<":", "6", "0", ":", "0", "1", ",", "0", "0", "0", " ", "-", "-", ">", " ", "0", "0", ":", "0", "0", ":", "0", "2", ",", "0", "0", "0", "\n", "x", "\n">>
      [] OTHER -> <<"1", "\n", "H", "i", "\n", "\n", "2", "\n", "0", "0", ":", "0", "0", ":", "0", "3", ",", "0", "0", "0", " ", "-", "-", ">", " ", "0", "0", ":", "0", "0", ":", "0", "4", ",", "0", "0", "0", "\n", "y", "o", "u", "\n">>

\* pysrt.from_string(srt_content) for the sample files.
Parsed == [i \in 1..NumFiles |-> from_string(SampleFile(i))]

\* The strings the Translation Client can return for one text.
Translated(i) ==
    CASE i = 1 -> <<"B", "o", "n", "j", "o", "u", "r">>
      [] i = 2 -> <<"M", "o", "n", "d", "e">>
      [] OTHER -> <<"A", "\n", "\n", "B">>

SourceLangs == {"AUTO", "EN", "JA"}

TargetLangs == {"JA", "EN-US", "EN-GB"}

ApiKeys == {"", "key"}

\* Outcomes of translator.translate_text (main.py:216): a result list, or one of
\* the exceptions of the deepl client (QuotaExceededException,
\* AuthorizationException, DeepLException, ConnectionException).
ClientFailures == {"QuotaExceededRemote", "AuthenticationFailed", "ProviderError", "TransportError"}

ClientOutcomes == {"Ok"} \cup ClientFailures

\* The result lists the client can return for n texts: one string per text.
ResultLists(n) == [1..n -> {Translated(i) : i \in 1..NumTexts}]

NoRequest == [texts |-> <<>>, source_lang |-> "", target_lang |-> ""]

\* A FilePickerResultEvent.  files: e.files is a non-empty list, of the sample
\* file e.file, whose path is known (file_path); path: e.path is set.
NoEvent == [files |-> FALSE, file |-> 0, file_path |-> FALSE, path |-> FALSE]

\* What a pick_files dialog can answer: cancelled, or one of the sample files.
PickEvents ==
    {NoEvent}
    \cup {[NoEvent EXCEPT !.files = TRUE, !.file = i, !.file_path = fp] :
             i \in 1..NumFiles, fp \in BOOLEAN}

\* What a save_file dialog can answer: cancelled, or a path.
SaveEvents ==
    {NoEvent, [NoEvent EXCEPT !.path = TRUE]}

History(op, pre, e, called, request, outcome, results, content) ==
    [op |-> op, pre |-> pre, e |-> e, called |-> called, request |-> request,
     outcome |-> outcome, results |-> results, content |-> content,
     before |-> None, layout |-> <<>>, raised |-> ""]

\* A step that made no Translation Client call and wrote no file, and left
\* the document as it was.
Ran(op, e, outcome) ==
    History(op, current_srt_subs, e, FALSE, NoRequest, outcome, <<>>, <<>>)

\* A step no property speaks about: a dialog is opened, a setting is changed.
Quiet == Ran("", NoEvent, "")

\* Of the event a save callback handled, what tells the dialog it came from
\* (files) and the path it gave.
Answer(e) == [NoEvent EXCEPT !.files = e.files, !.path = e.path]

\* A step of the load callback, which assigns the document.
Assigned(e, outcome) ==
    History("on_file_selected_callback", None, e, FALSE, NoRequest, outcome, <<>>, <<>>)

\* The handlers now waiting.
Waiting == BagCardinality(reading) + BagCardinality(saving) + BagCardinality(inflight)

Init ==
    /\ current_srt_subs = None
    /\ api_key \in ApiKeys
    /\ source_lang = "AUTO"
    /\ target_lang = "JA"
    /\ save_disabled = TRUE
    /\ on_result = "on_file_selected_callback"
    /\ dialog = "none"
    /\ reading = EmptyBag
    /\ saving = EmptyBag
    /\ inflight = EmptyBag
    /\ last = History("init", None, NoEvent, FALSE, NoRequest, "", <<>>, <<>>)
    /\ recent = "none"

(***************************************************************************)
(* File selection (main.py:104-146, 192).                                  *)
(***************************************************************************)
\* select_srt_button.on_click: file_picker.pick_files(...) opens the dialog.
select_srt_button_clicked ==
    /\ dialog = "none"
    /\ dialog' = "pick"
    /\ last' = Quiet
    /\ UNCHANGED <<current_srt_subs, api_key, source_lang,
                   target_lang, save_disabled, on_result, reading, saving, inflight,
                   recent>>

\* A load callback waiting in open()/read(): its event.
Reader(e) == [e |-> e]

\* The texts of the cues of subs after the first k.
texts_after(subs, k) == [i \in 1..(Len(subs.data) - k) |-> subs.data[i + k].text]

\* current_srt_subs is assigned by the load callback (main.py:109, 134).  A
\* translate handler collecting the texts (main.py:215) keeps the object it
\* iterates, of which the texts it has not read are all that matters from now
\* on (rest).  History: the assignment comes after these handlers have made
\* their request and before they have written their last result (reselected).
Reselected(calls) ==
    BagOfAll(LAMBDA t : IF t.pc \in {"call", "loop"} THEN [t EXCEPT !.reselected = TRUE]
                        ELSE IF t.pc = "collect" /\ t.attached
                        THEN [t EXCEPT !.attached = FALSE,
                                       !.rest = texts_after(current_srt_subs,
                                                            Len(t.texts_to_translate))]
                        ELSE t,
             calls)

\* A save callback that has tested current_srt_subs (main.py:64) and has not
\* read it again for the call of save (main.py:65): its event.
Tested(e) == [pc |-> "tested", e |-> e, subs |-> None, attached |-> FALSE]

\* A save callback waiting in current_srt_subs.save(...) (main.py:65): its
\* event and the SubRipFile whose save was called, with the texts that object
\* has now; attached: current_srt_subs is still that object.
Saver(e, subs) == [pc |-> "save", e |-> e, subs |-> subs, attached |-> TRUE]

\* current_srt_subs is assigned (main.py:109, 134): the waiting save callbacks
\* keep the object they were called on.
Detached(savers) == BagOfAll(LAMBDA v : [v EXCEPT !.attached = FALSE], savers)

\* The loop of main.py:218-219 has written into the object current_srt_subs:
\* a save callback waiting on that object sees the texts.
Written(savers, subs) ==
    BagOfAll(LAMBDA v : IF v.attached THEN [v EXCEPT !.subs = subs] ELSE v, savers)

\* How on_file_selected_callback ends for the event e (what it displays);
\* readable: open() and read() of main.py:130-131 do not raise.
load_outcome(e, readable) ==
    IF ~e.files THEN "Cancelled"
    ELSE IF ~e.file_path THEN "WebPreview"
    ELSE IF ~readable THEN "ReadError"
    ELSE IF Parsed[e.file].raised THEN "ParseError"
    ELSE "Loaded"

\* on_file_selected_callback(e) up to open() (main.py:104-130): the document
\* and the save button are reset (main.py:109, 111); with no file or no path
\* the callback ends here (main.py:121-124, 144), else it goes on to read the
\* file.  original_srt_filename (main.py:110, 116) is left out of the state:
\* it is read only for the file name the save dialog proposes (main.py:158-161).
on_file_selected_callback(e) ==
    /\ current_srt_subs' = None
    /\ save_disabled' = TRUE
    /\ IF e.files /\ e.file_path
       THEN /\ Waiting < MaxWaiting
            /\ reading' = reading (+) SetToBag({Reader(e)})
            /\ last' = Assigned(e, "Reading")
       ELSE /\ last' = Assigned(e, load_outcome(e, FALSE))
            /\ UNCHANGED reading
    /\ saving' = Detached(saving)
    /\ inflight' = Reselected(inflight)
    /\ recent' = "none"
    /\ UNCHANGED <<api_key, source_lang, target_lang, on_result>>

\* The value current_srt_subs has when the callback of e has read its file:
\* the parsed file (main.py:134), or what it was when reading or parsing fails
\* (main.py:137-142 assign nothing).
loaded_subs(e, readable) ==
    IF load_outcome(e, readable) = "Loaded" THEN Parsed[e.file].subs
    ELSE current_srt_subs

\* open()/read() returns to a load callback, or fails, and the callback runs
\* to its end (main.py:130-146).
on_file_selected_callback_read ==
    /\ \E r \in BagToSet(reading) :
       \E readable \in BOOLEAN :
           /\ current_srt_subs' = loaded_subs(r.e, readable)
           /\ IF load_outcome(r.e, readable) = "Loaded"
              THEN /\ saving' = Detached(saving)
                   /\ inflight' = Reselected(inflight)
              ELSE UNCHANGED <<saving, inflight>>
           /\ reading' = reading (-) SetToBag({r})
           /\ last' = Assigned(r.e, load_outcome(r.e, readable))
    /\ UNCHANGED <<api_key, source_lang, target_lang,
                   save_disabled, on_result, dialog, recent>>

(***************************************************************************)
(* Saving (main.py:59-75, 151-186).                                        *)
(***************************************************************************)
\* Python truth of current_srt_subs (main.py:64): None and an empty list are false.
truthy(subs) == subs # None /\ Len(subs.data) > 0

\* How on_save_srt_result goes on for the event e (main.py:61-64): the
\* message it shows, "Tested" when it goes on to main.py:65.
save_outcome(subs, e) ==
    IF ~e.path THEN "SaveCancelled"
    ELSE IF ~truthy(subs) THEN "NoSaveData"
    ELSE "Tested"

\* on_save_srt_result(e) up to the test of main.py:64 (main.py:59-64); with no
\* path or no data the callback ends here (main.py:69, 74).
on_save_srt_result(e) ==
    /\ IF save_outcome(current_srt_subs, e) = "Tested"
       THEN /\ Waiting < MaxWaiting
            /\ saving' = saving (+) SetToBag({Tested(e)})
       ELSE UNCHANGED saving
    /\ last' = Ran("on_save_srt_result", Answer(e), save_outcome(current_srt_subs, e))
    /\ UNCHANGED <<current_srt_subs, api_key, source_lang,
                   target_lang, save_disabled, on_result, reading, inflight, recent>>

\* A save callback that has passed the test reads current_srt_subs again and
\* calls its save (main.py:65), on the object the variable names by then:
\* None has no save (AttributeError, shown by main.py:71), a document of no
\* cues is saved like any other.
on_save_srt_result_call ==
    /\ \E v \in BagToSet(saving) :
           /\ v.pc = "tested"
           /\ IF current_srt_subs = None
              THEN /\ saving' = saving (-) SetToBag({v})
                   /\ last' = Ran("on_save_srt_result", Answer(v.e), "SaveError")
              ELSE /\ saving' = (saving (-) SetToBag({v}))
                                    (+) SetToBag({Saver(v.e, current_srt_subs)})
                   /\ last' = Ran("on_save_srt_result", Answer(v.e), "Saving")
    /\ UNCHANGED <<current_srt_subs, api_key, source_lang,
                   target_lang, save_disabled, on_result, dialog, reading, inflight,
                   recent>>

\* What save has written into the file when it ends: every item, or the items
\* before the first one that cannot be printed.
RECURSIVE save_written(_)
save_written(items) ==
    IF items = <<>> \/ save_raises(<<Head(items)>>) THEN <<>>
    ELSE write_into(<<Head(items)>>) \o save_written(Tail(items))

\* How save ends (main.py:65-72): the destination cannot be opened (not
\* write_ok), or an item cannot be printed (SaveError), or the file is written.
saved_outcome(v, write_ok) ==
    IF ~write_ok \/ save_raises(v.subs.data) THEN "SaveError" ELSE "Saved"

\* The destination is opened, or not, for a waiting save callback; save writes
\* the object it was called on, as that object is by then, and the callback
\* runs to its end (main.py:65-75).
on_save_srt_result_save ==
    /\ \E v \in BagToSet(saving) :
       \E write_ok \in BOOLEAN :
           /\ v.pc = "save"
           /\ saving' = saving (-) SetToBag({v})
           /\ last' = History("on_save_srt_result", v.subs, Answer(v.e), FALSE, NoRequest,
                          saved_outcome(v, write_ok), <<>>,
                          IF write_ok THEN save_written(v.subs.data) ELSE <<>>)
    /\ UNCHANGED <<current_srt_subs, api_key, source_lang,
                   target_lang, save_disabled, on_result, dialog, reading, inflight,
                   recent>>

\* save_srt_button.on_click; a disabled button delivers no click.
save_translated_srt ==
    /\ dialog = "none"
    /\ ~save_disabled
    /\ IF current_srt_subs = None
       THEN /\ last' = Ran("save_translated_srt", NoEvent, "NothingToSave")
            /\ UNCHANGED <<on_result, dialog>>
       ELSE /\ on_result' = "on_save_srt_result"
            /\ dialog' = "save"
            /\ last' = Ran("save_translated_srt", NoEvent, "DialogOpened")
    /\ UNCHANGED <<current_srt_subs, api_key, source_lang,
                   target_lang, save_disabled, reading, saving, inflight,
                   recent>>

\* The dialog closes and FilePicker hands its result to the callback installed
\* in file_picker.on_result at that moment (main.py:148, 181).
file_picker_result ==
    /\ dialog # "none"
    /\ \E e \in (IF dialog = "pick" THEN PickEvents ELSE SaveEvents) :
           IF on_result = "on_file_selected_callback"
           THEN on_file_selected_callback(e)
           ELSE on_save_srt_result(e)
    /\ dialog' = "none"

(***************************************************************************)
(* Settings (main.py:98-102, 194-195).                                     *)
(***************************************************************************)
\* save_api_key_button.on_click: the key of the field is stored
\* (main.py:98-102).
save_api_key_config ==
    /\ dialog = "none"
    /\ Waiting <= MaxBusy
    /\ \E v \in ApiKeys : api_key' = v
    /\ last' = Quiet
    /\ UNCHANGED <<current_srt_subs, source_lang, target_lang,
                   save_disabled, on_result, dialog, reading, saving, inflight,
                   recent>>

\* The translate handlers waiting in page.update() (main.py:211) or collecting
\* the texts (main.py:215): they have read the dropdowns (main.py:205-206) and
\* have not made their request.
Updating ==
    BagCardinality([t \in {u \in BagToSet(inflight) : u.pc \in {"update", "collect"}} |->
                       CopiesIn(t, inflight)])

\* A dropdown is set to another option (main.py:194-195).
select_language ==
    /\ dialog = "none"
    /\ Updating <= MaxStale
    /\ \/ \E s \in SourceLangs \ {source_lang} :
              source_lang' = s /\ UNCHANGED target_lang
       \/ \E t \in TargetLangs \ {target_lang} :
              target_lang' = t /\ UNCHANGED source_lang
    /\ last' = Quiet
    /\ UNCHANGED <<current_srt_subs, api_key, save_disabled,
                   on_result, dialog, reading, saving, inflight,
                   recent>>

(***************************************************************************)
(* Translation (main.py:197-233).                                          *)
(***************************************************************************)
\* The early returns of translate_srt_clicked (main.py:199-208): the message
\* of the first check that fails, "" when all pass.
precheck(key, subs, target) ==
    IF key = "" THEN "MissingCredential"
    ELSE IF subs = None THEN "NoDocument"
    ELSE IF target = "" THEN "MissingTargetLanguage"
    ELSE ""

\* source_lang_code (main.py:210): None for "AUTO".
source_lang_code(source) == IF source # "AUTO" THEN source ELSE "None"

\* The request of main.py:216: the texts collected at main.py:215, and the
\* language codes of main.py:205 and 210.
translation_request(texts, source, target) ==
    [texts |-> texts, source_lang |-> source, target_lang |-> target]

\* The cues of a document without their texts: index, start, end and position
\* of each, in document order.
Layout(subs) ==
    [i \in 1..Len(subs.data) |->
        [index |-> subs.data[i].index, start |-> subs.data[i].start,
         end |-> subs.data[i].end, position |-> subs.data[i].position]]

\* One iteration of the loop of main.py:218-219, on current_srt_subs as it
\* is when the iteration runs: result i replaces the text of cue i:
\* [subs, error].  None cannot be indexed (TypeError); a result beyond the
\* last cue raises IndexError.
write_result(subs, i, text) ==
    IF subs = None THEN [subs |-> subs, error |-> "TypeError"]
    ELSE IF i > Len(subs.data) THEN [subs |-> subs, error |-> "IndexError"]
    ELSE [subs |-> [subs EXCEPT !.data[i].text = text], error |-> ""]

\* The cues the preview prints: current_srt_subs[:3] (main.py:222).
preview_items(items) == SubSeq(items, 1, IF Len(items) < 3 THEN Len(items) ELSE 3)

\* Printing "{sub.start} --> {sub.end}" raises for one of the items
\* (main.py:223).
preview_raises(items) ==
    \E i \in 1..Len(items) :
        SubRipTime_str_raises(items[i].start) \/ SubRipTime_str_raises(items[i].end)

\* The exception of the preview (main.py:221-223) on current_srt_subs as it
\* is by then, "" when there is none: None has no length (TypeError at
\* main.py:221), a time that cannot be printed is a ValueError.
preview_error(subs) ==
    IF subs = None THEN "TypeError"
    ELSE IF preview_raises(preview_items(subs.data)) THEN "ValueError"
    ELSE ""

\* How the handler ends when the try block is left (main.py:221-233), error
\* being the exception raised in it, "" when there is none.  The except branch
\* shows the message of main.py:228 for deepl.QuotaExceededException.  For
\* every other exception it goes on to main.py:229, which reads
\* deepl.AuthenticationException, a name the deepl package does not define
\* (its class is AuthorizationException): AttributeError leaves the handler,
\* nothing is shown and page.update() of main.py:233 is not reached.
translate_outcome(error) ==
    IF error = "" THEN "TranslationDone"
    ELSE IF error = "QuotaExceededRemote" THEN "QuotaExceededRemote"
    ELSE "escaped:AttributeError"

\* A translate handler: where it is (pc), and what is still to be read of its
\* local variables: the language codes while it waits in page.update()
\* ("update") and while it collects the texts ("collect"), then also the
\* texts read so far (texts_to_translate) and the object it iterates
\* (attached: current_srt_subs is still that object; else rest, the texts it
\* has not read); how many texts it sent while it waits for the client ("call",
\* the client answers with one result per text); the results and the
\* position of the next one while it is in the loop ("loop"), and the results
\* before the preview ("preview") and before main.py:225 ("enable").
\* History: before, while the call is outstanding, the document as it was when
\* the texts of the request were collected (main.py:215), and layout, the
\* cues that document had, without their texts; reselected, while results are
\* to be written, current_srt_subs was assigned by the load callback since
\* the request.
Call(pc, source, target, sent, before) ==
    [pc |-> pc, source_lang |-> source, target_lang |-> target,
     texts_to_translate |-> <<>>, attached |-> FALSE, rest |-> <<>>, sent |-> sent,
     results |-> <<>>, next |-> 0, before |-> before, layout |-> Layout(before),
     reselected |-> FALSE]

\* The history of a step of the translate handler t after its request; pre:
\* the document before the step, for a step that leaves the document as it
\* is; error: the exception that ends the try block in this step, "" when
\* there is none.
Step(op, t, pre, outcome, error) ==
    [History(op, pre, NoEvent, TRUE, NoRequest, outcome, t.results, <<>>)
        EXCEPT !.before = t.before, !.layout = t.layout, !.raised = error]

\* translate_srt_clicked up to page.update() (main.py:197-211): the early
\* returns, then the save button is disabled.
translate_srt_clicked ==
    /\ dialog = "none"
    /\ LET failed == precheck(api_key, current_srt_subs, target_lang)
       IN  IF failed # ""
           THEN /\ last' = Ran("translate_srt_clicked", NoEvent, failed)
                /\ UNCHANGED <<save_disabled, inflight, recent>>
           ELSE /\ Waiting < MaxWaiting
                /\ save_disabled' = TRUE
                /\ inflight' = inflight (+) SetToBag({
                       Call("update", source_lang_code(source_lang), target_lang, 0, None)})
                /\ recent' = "started"
                /\ last' = Ran("translate_srt_clicked", NoEvent, "Translating")
    /\ UNCHANGED <<current_srt_subs, api_key, source_lang,
                   target_lang, on_result, dialog, reading, saving>>

\* What the iteration of main.py:215 gets next from the object the handler t
\* iterates: the text of the next cue as it is now, in a list of one, or
\* nothing when the cues are exhausted.  The object current_srt_subs names is
\* written by the loops of other translate handlers (main.py:219) meanwhile.
next_text(t) ==
    IF t.attached
    THEN IF Len(t.texts_to_translate) < Len(current_srt_subs.data)
         THEN <<current_srt_subs.data[Len(t.texts_to_translate) + 1].text>>
         ELSE <<>>
    ELSE IF t.rest # <<>> THEN <<Head(t.rest)>> ELSE <<>>

\* One step of the comprehension of main.py:215 for the handler t, which was
\* at pos: the text of the next cue is added to texts_to_translate; when the
\* cues are exhausted the request is sent (main.py:216) and the handler waits
\* for the client.
translate_srt_clicked_collected(t, pos) ==
    IF next_text(t) # <<>>
    THEN /\ inflight' = (inflight (-) SetToBag({pos})) (+) SetToBag({
                [t EXCEPT !.texts_to_translate = @ \o next_text(t),
                          !.rest = IF t.attached THEN <<>> ELSE Tail(@)]})
         /\ last' = Quiet
    ELSE /\ inflight' = (inflight (-) SetToBag({pos})) (+) SetToBag({
                Call("call", "", "", Len(t.texts_to_translate), current_srt_subs)})
         /\ last' = [History("translate_call", current_srt_subs, NoEvent, TRUE,
                         translation_request(t.texts_to_translate, t.source_lang,
                                             t.target_lang),
                         "", <<>>, <<>>)
                        EXCEPT !.before = current_srt_subs,
                               !.layout = Layout(current_srt_subs)]

\* page.update() returns to a translate handler, which starts to collect the
\* texts of the object current_srt_subs names by then (main.py:213-215): the
\* first step of the comprehension.  None is not iterable: TypeError at
\* main.py:215 ends the try block and no request is sent.
translate_srt_clicked_call ==
    /\ \E t \in BagToSet(inflight) :
           /\ t.pc = "update"
           /\ IF current_srt_subs = None
              THEN /\ inflight' = inflight (-) SetToBag({t})
                   /\ recent' = "failed"
                   /\ last' = [Ran("translate_end", NoEvent, translate_outcome("TypeError"))
                                  EXCEPT !.raised = "TypeError"]
              ELSE /\ translate_srt_clicked_collected(
                          [t EXCEPT !.pc = "collect", !.attached = TRUE], t)
                   /\ UNCHANGED recent
    /\ UNCHANGED <<current_srt_subs, api_key, source_lang,
                   target_lang, save_disabled, on_result, dialog, reading, saving>>

\* A later step of the comprehension of main.py:215.
translate_srt_clicked_collect ==
    /\ \E t \in BagToSet(inflight) :
           /\ t.pc = "collect"
           /\ translate_srt_clicked_collected(t, t)
    /\ UNCHANGED <<current_srt_subs, api_key, source_lang, target_lang,
                   save_disabled, on_result, dialog, reading, saving, recent>>

\* The except branch (main.py:226-233) ends the handler t, whose results are
\* t.results: the error is shown, the document and the save button are left
\* as they are.
translate_srt_clicked_except(t, pos, error) ==
    /\ inflight' = inflight (-) SetToBag({pos})
    /\ recent' = "failed"
    /\ last' = Step("translate_end", t, current_srt_subs, translate_outcome(error), error)
    /\ UNCHANGED <<current_srt_subs, saving, save_disabled>>

\* The handler at pos goes on as t, having written subs (main.py:219), or
\* nothing when the client returned no result.
translate_srt_clicked_written(t, pos, subs) ==
    /\ inflight' = (inflight (-) SetToBag({pos})) (+) SetToBag({t})
    /\ current_srt_subs' = subs
    /\ saving' = Written(saving, subs)
    /\ last' = Step("translate_loop", t, None, "", "")
    /\ UNCHANGED <<save_disabled, recent>>

\* The iteration of the loop (main.py:218-219) that writes result t.next - 1,
\* on current_srt_subs as it is now; the handler was at pos and goes on as t,
\* to the next iteration or, after the last result, to the preview.
translate_srt_clicked_iteration(t, pos, written) ==
    IF written.error # ""
    THEN translate_srt_clicked_except(t, pos, written.error)
    ELSE translate_srt_clicked_written(
             IF t.next > Len(t.results)
             THEN [t EXCEPT !.pc = "preview", !.reselected = FALSE]
             ELSE [t EXCEPT !.pc = "loop"],
             pos, written.subs)

\* translate_text returns to a handler (main.py:216), with a result per text
\* or an exception of the client.  An exception ends the handler in the
\* except branch, before any cue is written.  With results the handler enters
\* the loop and runs its first iteration, if there is a result.
translate_srt_clicked_end ==
    /\ \E t \in BagToSet(inflight) :
       \E outcome \in ClientOutcomes :
       \E results \in (IF outcome = "Ok" THEN ResultLists(t.sent)
                       ELSE {<<>>}) :
           /\ t.pc = "call"
           /\ IF outcome # "Ok"
              THEN translate_srt_clicked_except(t, t, outcome)
              ELSE IF results = <<>>
              THEN translate_srt_clicked_written(
                       [t EXCEPT !.pc = "preview", !.before = None, !.reselected = FALSE],
                       t, current_srt_subs)
              ELSE translate_srt_clicked_iteration(
                       [t EXCEPT !.results = results, !.next = 2, !.before = None], t,
                       write_result(current_srt_subs, 1, results[1]))
    /\ UNCHANGED <<api_key, source_lang, target_lang, on_result,
                   dialog, reading>>

\* A later iteration of the loop (main.py:218-219): it reads
\* current_srt_subs again.
translate_srt_clicked_loop ==
    /\ \E t \in BagToSet(inflight) :
           /\ t.pc = "loop"
           /\ translate_srt_clicked_iteration(
                  [t EXCEPT !.next = t.next + 1], t,
                  write_result(current_srt_subs, t.next, t.results[t.next]))
    /\ UNCHANGED <<api_key, source_lang, target_lang, on_result,
                   dialog, reading>>

\* The preview (main.py:221-224) of current_srt_subs as it is after the loop.
translate_srt_clicked_preview ==
    /\ \E t \in BagToSet(inflight) :
           /\ t.pc = "preview"
           /\ IF preview_error(current_srt_subs) # ""
              THEN translate_srt_clicked_except(t, t, preview_error(current_srt_subs))
              ELSE /\ inflight' = (inflight (-) SetToBag({t}))
                                      (+) SetToBag({[t EXCEPT !.pc = "enable"]})
                   /\ last' = Step("translate_preview", t, current_srt_subs, "", "")
                   /\ UNCHANGED <<current_srt_subs, saving, save_disabled, recent>>
    /\ UNCHANGED <<api_key, source_lang, target_lang, on_result,
                   dialog, reading>>

\* The save button is enabled (main.py:225) and the handler ends
\* (main.py:233).
translate_srt_clicked_enable ==
    /\ \E t \in BagToSet(inflight) :
           /\ t.pc = "enable"
           /\ inflight' = inflight (-) SetToBag({t})
           /\ save_disabled' = FALSE
           /\ recent' = "ok"
           /\ last' = Step("translate_end", t, current_srt_subs, translate_outcome(""), "")
    /\ UNCHANGED <<current_srt_subs, api_key, source_lang, target_lang, on_result,
                   dialog, reading, saving>>

Next ==
    \/ select_srt_button_clicked
    \/ file_picker_result
    \/ on_file_selected_callback_read
    \/ save_translated_srt
    \/ on_save_srt_result_call
    \/ on_save_srt_result_save
    \/ save_api_key_config
    \/ select_language
    \/ translate_srt_clicked
    \/ translate_srt_clicked_call
    \/ translate_srt_clicked_collect
    \/ translate_srt_clicked_end
    \/ translate_srt_clicked_loop
    \/ translate_srt_clicked_preview
    \/ translate_srt_clicked_enable

Spec == Init /\ [][Next]_vars

(***************************************************************************)
(* The codec on its own: a raw subtitle text x is parsed as at main.py:133,*)
(* the result is written as at main.py:65, and what was written is parsed  *)
(* again.  last.content holds the text, last.pre the first parse.          *)
(***************************************************************************)
\* Bounds: the well-formed blocks a raw text is built from, and how many
\* blocks it holds.
NumBlocks == 5

MaxBlocks == 2

\* Well-formed blocks: index line, "start --> end" line, text lines, blank
\* line(s).  They differ in index, timing, number of text lines, trailing
\* white space, extra blank lines and text that looks like syntax.
SampleBlock(i) ==
    CASE i = 1 -> <<"1", "\n", "0", "0", ":", "0", "0", ":", "0", "1", ",", "0", "0", "0", " ", "-", "-", ">", " ", "0", "0", ":", "0", "0", ":", "0", "2", ",", "5", "0", "0", "\n", "H", "e", "l", "l", "o", "\n", "\n">>
      [] i = 2 -> <<"2", "\n", "0", "0", ":", "0", "0", ":", "0", "3", ",", "0", "0", "0", " ", "-", "-", ">", " ", "0", "0", ":", "0", "0", ":", "0", "4", ",", "0", "0", "0", "\n", "H", "i", "\n", "y", "o", "u", "\n", "\n">>
      [] i = 3 -> <<"3", "\n", "0", "0", ":", "5", "9", ":", "5", "9", ",", "9", "9", "9", " ", "-", "-", ">", " ", "0", "1", ":", "0", "0", ":", "0", "0", ",", "0", "0", "0", "\n", "e", "n", "d", "\f", "\t", "\n", "\n", "\n">>
      [] i = 4 -> <<"1", "2", "\n", "1", "0", "0", ":", "0", "0", ":", "0", "0", ",", "0", "0", "0", " ", "-", "-", ">", " ", "1", "0", "0", ":", "0", "0", ":", "0", "0", ",", "0", "0", "1", "\n", " ", "a", " ", "-", "-", ">", " ", "b", "\n", "\n">>
      [] i = 5 -> <<"7", "\n", "0", "0", ":", "0", "0", ":", "0", "5", ",", "0", "0", "0", " ", "-", "-", ">", " ", "0", "0", ":", "0", "0", ":", "0", "5", ",", "0", "0", "0", "\n", "4", "2", "\n", "0", "0", ":", "0", "0", ":", "0", "1", ",", "0", "0", "0", "\n", "\n">>
      [] OTHER -> <<"8", "\n", "0", "0", ":", "0", "0", ":", "0", "6", ",", "0", "0", "0", " ", "-", "-", ">", " ", "0", "0", ":", "0", "0", ":", "0", "7", ",", "0", "0", "0", "\n", "x", "\n", "\n">>

RECURSIVE concat_blocks(_)
concat_blocks(choice) ==
    IF choice = <<>> THEN <<>>
    ELSE SampleBlock(Head(choice)) \o concat_blocks(Tail(choice))

\* The raw texts: up to MaxBlocks blocks, as they are or with the white space
\* at the end of the text cut off (no line end after the last text line).
RawTexts ==
    LET whole == {concat_blocks(c) :
                     c \in UNION {[1..n -> 1..NumBlocks] : n \in 0..MaxBlocks}}
    IN  whole \cup {rstrip(x) : x \in whole}

Codec(op, pre, content) == History(op, pre, NoEvent, FALSE, NoRequest, "", <<>>, content)

InitCodec ==
    /\ current_srt_subs = None
    /\ api_key = ""
    /\ source_lang = "AUTO"
    /\ target_lang = "JA"
    /\ save_disabled = TRUE
    /\ on_result = "on_file_selected_callback"
    /\ dialog = "none"
    /\ reading = EmptyBag
    /\ saving = EmptyBag
    /\ inflight = EmptyBag
    /\ \E x \in RawTexts : last = Codec("codec_input", None, x)
    /\ recent = "none"

\* subs = pysrt.from_string(srt_content); current_srt_subs = subs
codec_parse ==
    /\ last.op = "codec_input"
    /\ current_srt_subs' = from_string(last.content).subs
    /\ last' = Codec("codec_parse", None, last.content)
    /\ UNCHANGED <<api_key, source_lang, target_lang,
                   save_disabled, on_result, dialog, reading, saving, inflight,
                   recent>>

\* current_srt_subs.save(path): the text written
codec_serialize ==
    /\ last.op = "codec_parse"
    /\ last' = Codec("codec_serialize", current_srt_subs, write_into(current_srt_subs.data))
    /\ UNCHANGED <<current_srt_subs, api_key, source_lang,
                   target_lang, save_disabled, on_result, dialog, reading, saving, inflight,
                   recent>>

\* the written text is parsed again
codec_reparse ==
    /\ last.op = "codec_serialize"
    /\ current_srt_subs' = from_string(last.content).subs
    /\ last' = Codec("codec_reparse", last.pre, last.content)
    /\ UNCHANGED <<api_key, source_lang, target_lang,
                   save_disabled, on_result, dialog, reading, saving, inflight,
                   recent>>

NextCodec ==
    \/ codec_parse
    \/ codec_serialize
    \/ codec_reparse

SpecCodec == InitCodec /\ [][NextCodec]_vars

(***************************************************************************)
(* Properties.  last.pre is the document immediately before the step that  *)
(* last describes, when that step left the document as it was.  At a step  *)
(* of a translate handler, last.before is the document immediately before  *)
(* that handler's call of the Translation Client, as it was when the texts *)
(* of the request were collected (recorded until the call has returned     *)
(* results), and last.layout is the cues that document had, without their  *)
(* texts.                                                                  *)
(***************************************************************************)
\* The request of a translate handler was sent in the last step.
ClientCalled == last.op = "translate_call" /\ last.called

\* A translate handler ended in the last step with a Translation Client failure.
ClientFailed == last.op = "translate_end" /\ last.raised \in ClientFailures

\* A translate handler ended in the last step with success: every result
\* written, the save button enabled.
Translated_ok == last.op = "translate_end" /\ last.outcome = "TranslationDone"

\* totalChars of the spec's Quota Guard: the characters of all cue texts.
RECURSIVE TotalChars(_)
TotalChars(items) ==
    IF items = <<>> THEN 0 ELSE Len(Head(items).text) + TotalChars(Tail(items))

\* Every cue text is a string the Translation Client returned.
AllTranslated(subs) ==
    \A i \in 1..Len(subs.data) : subs.data[i].text \in {Translated(k) : k \in 1..NumTexts}

\* C1: for every loaded document and every Translation Client failure
\* (QuotaExceededRemote, AuthenticationFailed, ProviderError, TransportError),
\* when the translate has ended the document is exactly the document that
\* existed immediately before the call.
C1_ClientFailureLeavesDocument ==
    ClientFailed => current_srt_subs = last.before

\* The first failing precondition in the order the spec gives: document,
\* credential, Quota Guard (the empty verdict; the code has no limit), targetLang.
spec_first_failure(key, subs, target) ==
    IF subs = None THEN "NoDocument"
    ELSE IF key = "" THEN "MissingCredential"
    ELSE IF TotalChars(subs.data) = 0 THEN "EmptyDocument"
    ELSE IF target = "" THEN "MissingTargetLanguage"
    ELSE ""

\* C2: translate reports the first precondition that fails in the order
\* document, credential, Quota Guard, targetLang; with no document and no
\* credential it reports NoDocument.
C2_PreconditionOrder ==
    last.op = "translate_srt_clicked" =>
        (IF last.outcome = "Translating" THEN "" ELSE last.outcome)
            = spec_first_failure(api_key, last.pre, target_lang)

\* C3: the Translation Client is invoked only when the Quota Guard verdict is
\* Ok: a document with no characters (zero cues, or blank text only) never
\* causes a remote call.  (The code defines no character limit, so the
\* over-limit half of the verdict has no value to be stated with.)
C3_ClientOnlyWhenQuotaOk ==
    ClientCalled => TotalChars(last.pre.data) > 0

\* C4: a successful translate changes only the text of cues: the number and
\* order of cues after it are those before the call, and at every position
\* index, start and end (and position) have the values they had before the
\* call.
C4_OnlyTextChanges ==
    Translated_ok =>
        /\ current_srt_subs # None
        /\ Len(current_srt_subs.data) = Len(last.layout)
        /\ \A i \in 1..Len(last.layout) :
               /\ current_srt_subs.data[i].index = last.layout[i].index
               /\ current_srt_subs.data[i].start = last.layout[i].start
               /\ current_srt_subs.data[i].end = last.layout[i].end
               /\ current_srt_subs.data[i].position = last.layout[i].position

\* C5: the request sent to the Translation Client holds exactly the cue texts
\* of the document in document order, one per cue, and after a successful
\* translate the text of the cue at every position i of the document is the
\* i-th returned string.
C5_PositionalRequestAndResult ==
    /\ ClientCalled =>
           /\ Len(last.request.texts) = Len(last.pre.data)
           /\ \A i \in 1..Len(last.pre.data) :
                  last.request.texts[i] = last.pre.data[i].text
    /\ Translated_ok =>
           /\ current_srt_subs # None
           /\ Len(current_srt_subs.data) = Len(last.results)
           /\ \A i \in 1..Len(current_srt_subs.data) :
                  current_srt_subs.data[i].text = last.results[i]

\* C6: save is available in every Loaded state, whether or not a translation
\* has occurred: also right after a successful load, with no translate
\* performed, the user can save the document.
C6_SaveAvailableWhenLoaded ==
    current_srt_subs # None /\ dialog = "none" => ENABLED save_translated_srt

\* C7: after a translate that fails with a Translation Client error the
\* session still holds the pre-call document and a save can be performed; also
\* when an earlier translate of the same document had succeeded (the case
\* stated here).
C7_SaveAfterFailedTranslate ==
    ClientFailed /\ last.pre # None /\ AllTranslated(last.pre)
        /\ Len(last.pre.data) > 0 /\ dialog = "none" =>
        /\ current_srt_subs = last.pre
        /\ ENABLED save_translated_srt

\* C8: a load ends holding the newly parsed document when the file was read
\* and parsed, and holding no document (Idle) when reading or parsing fails,
\* as after a cancelled dialog or a file without a path: a failed load leaves
\* no document in the session.
C8_LoadReplacesOrClears ==
    last.op = "on_file_selected_callback" =>
        IF last.outcome = "Loaded"
        THEN /\ current_srt_subs # None
             /\ current_srt_subs = from_string(SampleFile(last.e.file)).subs
        ELSE current_srt_subs = None

\* C9: a loaded document with zero cues counts as present in every handler that
\* tests for a document: the save-result handler given a path does not answer
\* that there is nothing to save.
C9_EmptyDocumentIsPresent ==
    last.op = "on_save_srt_result" /\ last.e.path /\ last.pre # None =>
        last.outcome # "NoSaveData"

\* C10: for a well-formed raw text x, parse(serialize(parse(x))) has the cues of
\* parse(x): the same number, and the same start, end and text at each position.
C10_RoundTrip ==
    last.op = "codec_reparse" =>
        /\ Len(current_srt_subs.data) = Len(last.pre.data)
        /\ \A i \in 1..Len(last.pre.data) :
               /\ current_srt_subs.data[i].start = last.pre.data[i].start
               /\ current_srt_subs.data[i].end = last.pre.data[i].end
               /\ current_srt_subs.data[i].text = last.pre.data[i].text

C10_Witness ==
    /\ last.op = "codec_reparse"
    /\ Len(last.pre.data) = 2
    /\ \E i \in 1..2 : find(last.pre.data[i].text, <<"\n">>) > 0
    /\ \E i \in 1..2 : ~less_digits(last.pre.data[i].start, itoa(HOURS_RATIO))

\* C11: after any sequence of loads and saves, the result of a file-open dialog
\* is handled by the load callback and the result of a save dialog by the save
\* callback; a file selected after a save was requested is still loaded.
C11_DialogResultsReachTheirHandler ==
    /\ last.op = "on_save_srt_result" => ~last.e.files
    /\ last.op = "on_file_selected_callback" => ~last.e.path

\* C12: while a translate is outstanding, no second translate click is
\* processed, and no result of a save dialog writes the document to a file.
C12_OneTranslateAtATime ==
    /\ BagCardinality(inflight) <= 1
    /\ last.op = "on_save_srt_result" /\ last.outcome = "Saved" => inflight = EmptyBag

\* C13: a translate that passed its checks and whose client call returned,
\* with results or with a failure, ends with a document present (Loaded).
C13_TranslateEndsLoaded ==
    last.op = "translate_end" /\ last.called => current_srt_subs # None

\* C14: the handler of a request made before a file-selection result was
\* handled writes nothing into the document that is current when it writes.
C14_ResultsOnlyIntoRequestDocument ==
    [][\A t \in BagToSet(inflight) :
           t.reselected /\ CopiesIn(t, inflight') < CopiesIn(t, inflight)
               /\ last'.op \in {"translate_loop", "translate_end"}
               => current_srt_subs' = current_srt_subs]_vars

\* C15: whenever the save button is enabled, a document is present and the
\* most recent translate since the last file-selection result succeeded.
C15_SaveEnabledOnlyAfterSuccess ==
    ~save_disabled => current_srt_subs # None /\ recent = "ok"
====
